---- MODULE Spec2Model ----
(***************************************************************************)
(* ICPC training timer (src/src/App.tsx): the React component App as a     *)
(* state machine.  One variable per useState hook, one for localStorage,   *)
(* one per setInterval timer, and one action per user event, timer         *)
(* callback or page load.  An action covers the event handler, the         *)
(* re-render it causes and every effect that re-render runs.               *)
(***************************************************************************)
EXTENDS Integers, Sequences, FiniteSets, TLC

\* ------------------------------------------------------------------ bounds
MaxProblems == 2      \* largest problem count typed into the input
MaxTime     == 1      \* the clock interval stops firing at this value
MaxLedger   == 1      \* no ledger entry is accrued beyond this value
MaxChanges  == 1      \* accepted radio clicks per session log

\* --------------------------------------------------------------- constants
TEAM_MEMBERS == <<"TG", "BJ", "SR">>
Members      == {TEAM_MEMBERS[i] : i \in DOMAIN TEAM_MEMBERS}

Alphabet == <<"A", "B", "C", "D", "E", "F", "G", "H">>
\* String.fromCharCode(65 + i)
fromCharCode(i) == Alphabet[i + 1]
\* Array.from({ length: n }, (_, i) => String.fromCharCode(65 + i)); a
\* negative length is an empty array
ProblemLetters(n) == {fromCharCode(i) : i \in 0..(n - 1)}

Undefined == "undefined"     \* an absent `problem` field / argument
Null      == "null"          \* showDialog === null
Period    == 1               \* one time step per 1000 ms interval
NoTimer   == -1              \* no interval installed
Blank     == <<>>            \* numProblems === ''
null      == <<>>            \* localStorage.getItem of a missing key
\* NaN, the result of parseInt on text that is no numeral: kept as a number
\* outside every count and time (a length of NaN is an empty array, as a
\* negative one is)
NaN       == 0 - 1000000

StorageKeys == {"numProblems", "isNumProblemsLocked", "time", "isRunning",
                "teamActions", "problemStates", "logs", "actionTimers"}

\* ------------------------------------------------------------ conversions
\* String(value) of a boolean and of an integer
StringOfBool(b) == IF b THEN "true" ELSE "false"
StringOfInt(n)  == IF n = NaN THEN "NaN" ELSE ToString(n)
\* parseInt: the number a decimal numeral stands for, NaN for other text
ParseRange == (0 - 2)..(MaxProblems + MaxTime + 3)
Numerals == [n \in ParseRange |-> ToString(n)]
parseInt(s) ==
    IF \E n \in ParseRange : Numerals[n] = s
    THEN CHOOSE n \in ParseRange : Numerals[n] = s
    ELSE NaN
\* JSON.stringify / JSON.parse of a plain object or array; text that is not
\* JSON is kept as [text |-> ...], and JSON.parse of it throws
JSONstringify(v) == [json |-> v]
IsJSON(s)        == "json" \in DOMAIN s
JSONparse(s)     == s.json

\* padStart(2, '0')
padStart2(n) == IF n < 10 THEN "0" \o ToString(n) ELSE ToString(n)
formatTime(seconds) ==
    LET hours   == seconds \div 3600
        minutes == (seconds % 3600) \div 60
        secs    == seconds % 60
    IN  padStart2(hours) \o ":" \o padStart2(minutes) \o ":" \o padStart2(secs)

\* the line stamped with the start of the session whatever the clock shows
LogLine_unstamped(t, message) == <<formatTime(0), message>>

\* `${formatTime(time)} ${message}`, kept as the pair of its two parts
LogLine(t, message) == <<formatTime(t), message>>

\* ------------------------------------------------------------- activities
IdleAction == [action |-> "idle"]
\* { action, ...(problem ? { problem } : {}) }
MakeAction(action, problem) ==
    IF problem # Undefined THEN [action |-> action, problem |-> problem]
                           ELSE [action |-> action]
\* action.problem
ProblemOf(a) == IF "problem" \in DOMAIN a THEN a.problem ELSE Undefined
DefaultTeamActions == [m \in Members |-> IdleAction]

\* `${member}-idle` and `${member}-${problem}`
TimerKey(member, target) == member \o "-" \o target

\* problemStates[problem] used as a condition (undefined is falsy)
IsSolved(states, problem) == problem \in DOMAIN states /\ states[problem]

VARIABLES numProblems, isNumProblemsLocked, time, isRunning, teamActions,
          problemStates, logs, showDialog, actionTimers,
          localStorage, clockInterval, ledgerInterval, lastOp

session == <<numProblems, isNumProblemsLocked, time, isRunning, teamActions,
             problemStates, logs, actionTimers>>
vars == <<numProblems, isNumProblemsLocked, time, isRunning, teamActions,
          problemStates, logs, showDialog, actionTimers,
          localStorage, clockInterval, ledgerInterval, lastOp>>

\* ------------------------------------------------ lock initialisation body
\* setProblemStates(prev => ...) of the lock effect
InitProblemStates(prev, n) ==
    [p \in ProblemLetters(n) |-> IF p \in DOMAIN prev THEN prev[p] ELSE FALSE]

\* the updater without its loop over the problems
InitActionTimers_idleOnly(prev, n) ==
    LET wanted == {TimerKey(m, "idle") : m \in Members}
    IN  [k \in (DOMAIN prev) \cup wanted |->
            IF k \in DOMAIN prev THEN prev[k] ELSE 0]

\* setActionTimers(prev => ...) of the lock effect
InitActionTimers(prev, n) ==
    LET wanted == {TimerKey(m, "idle") : m \in Members}
                    \cup {TimerKey(m, p) : m \in Members, p \in ProblemLetters(n)}
    IN  [k \in (DOMAIN prev) \cup wanted |->
            IF k \in DOMAIN prev THEN prev[k] ELSE 0]

\* --------------------------------------------------------- ledger accrual
\* the key one member's accrual goes to, or Undefined
AccrualKey(member, a) ==
    IF a.action = "idle" THEN TimerKey(member, "idle")
    ELSE IF ProblemOf(a) # Undefined THEN TimerKey(member, ProblemOf(a))
    ELSE Undefined

\* the accrual with the idle branch taken for every member
AccrueTimers_idleOnly(prev, actions) ==
    [k \in DOMAIN prev |->
        IF \E m \in Members : TimerKey(m, "idle") = k
        THEN prev[k] + 1 ELSE prev[k]]

\* setActionTimers(prev => ...) of the ledger interval callback
AccrueTimers(prev, actions) ==
    [k \in DOMAIN prev |->
        IF \E m \in Members : AccrualKey(m, actions[m]) = k
        THEN prev[k] + 1 ELSE prev[k]]

\* ------------------------------------------------------------ persistence
EmptyStorage == [k \in StorageKeys |-> null]

\* the eight persistence effects, run for the hooks in `changed`
SaveKeys(store, changed, np, lk, t, r, ta, ps, lg, at) ==
    [k \in StorageKeys |->
        IF k \notin changed THEN store[k]
        ELSE CASE k = "numProblems" ->
                    IF np # Blank THEN <<StringOfInt(np[1])>> ELSE store[k]
               [] k = "isNumProblemsLocked" -> <<StringOfBool(lk)>>
               [] k = "time"                -> <<StringOfInt(t)>>
               [] k = "isRunning"           -> <<StringOfBool(r)>>
               [] k = "teamActions"         -> <<JSONstringify(ta)>>
               [] k = "problemStates"       -> <<JSONstringify(ps)>>
               [] k = "logs"                -> <<JSONstringify(lg)>>
               [] k = "actionTimers"        -> <<JSONstringify(at)>>]

\* the order in which the persistence effects of one render run
EffectOrder == <<"numProblems", "isNumProblemsLocked", "time", "isRunning",
                 "teamActions", "problemStates", "logs", "actionTimers">>

\* the useState initialisers
LoadNumProblems(store) ==
    LET saved == store["numProblems"]
    IN  IF saved # null THEN <<parseInt(saved[1])>> ELSE Blank
LoadLocked(store)  == store["isNumProblemsLocked"] = <<"true">>
\* the initialiser without the stored value
LoadTime_fresh(store) == 0

LoadTime(store) ==
    LET saved == store["time"]
    IN  IF saved # null THEN parseInt(saved[1]) ELSE 0
LoadRunning(store) == store["isRunning"] = <<"true">>
LoadTeamActions(store) ==
    LET saved == store["teamActions"]
    IN  IF saved # null THEN JSONparse(saved[1]) ELSE DefaultTeamActions
LoadProblemStates(store) ==
    LET saved == store["problemStates"]
    IN  IF saved # null THEN JSONparse(saved[1]) ELSE <<>>
LoadLogs(store) ==
    LET saved == store["logs"]
    IN  IF saved # null THEN JSONparse(saved[1]) ELSE <<>>
LoadActionTimers(store) ==
    LET saved == store["actionTimers"]
    IN  IF saved # null THEN JSONparse(saved[1]) ELSE <<>>

\* the lock effect as it runs on mount: it rebuilds problemStates and
\* actionTimers from the loaded values when the loaded count is locked
MountInitialises(store) == LoadLocked(store) /\ LoadNumProblems(store) # Blank
MountProblemStates(store) ==
    IF MountInitialises(store)
    THEN InitProblemStates(LoadProblemStates(store), LoadNumProblems(store)[1])
    ELSE LoadProblemStates(store)
MountActionTimers(store) ==
    IF MountInitialises(store)
    THEN InitActionTimers(LoadActionTimers(store), LoadNumProblems(store)[1])
    ELSE LoadActionTimers(store)
\* both interval effects on mount
MountInterval(store) == IF LoadRunning(store) THEN Period ELSE NoTimer

\* Mounting App on localStorage: the initialisers, then the mount effects
\* (the lock effect and its re-render, both interval effects, and every
\* persistence effect, which leave each key holding the mounted value).
Mount ==
    /\ numProblems' = LoadNumProblems(localStorage)
    /\ isNumProblemsLocked' = LoadLocked(localStorage)
    /\ time' = LoadTime(localStorage)
    /\ isRunning' = LoadRunning(localStorage)
    /\ teamActions' = LoadTeamActions(localStorage)
    /\ problemStates' = MountProblemStates(localStorage)
    /\ logs' = LoadLogs(localStorage)
    /\ actionTimers' = MountActionTimers(localStorage)
    /\ clockInterval' = MountInterval(localStorage)
    /\ ledgerInterval' = MountInterval(localStorage)
    /\ localStorage' = SaveKeys(localStorage, StorageKeys, numProblems',
                                isNumProblemsLocked', time', isRunning',
                                teamActions', problemStates', logs',
                                actionTimers')

\* lastOp, the outcome of the last event: the operation a disabled control or
\* an early return refused, "reset" after a restart, "handled" otherwise
Op(name, ok) ==
    IF ~ok THEN name ELSE IF name = "reset" THEN "reset" ELSE "handled"

\* the first load, on an empty localStorage
Init ==
    /\ numProblems = LoadNumProblems(EmptyStorage)
    /\ isNumProblemsLocked = LoadLocked(EmptyStorage)
    /\ time = LoadTime(EmptyStorage)
    /\ isRunning = LoadRunning(EmptyStorage)
    /\ teamActions = LoadTeamActions(EmptyStorage)
    /\ problemStates = MountProblemStates(EmptyStorage)
    /\ logs = LoadLogs(EmptyStorage)
    /\ actionTimers = MountActionTimers(EmptyStorage)
    /\ clockInterval = MountInterval(EmptyStorage)
    /\ ledgerInterval = MountInterval(EmptyStorage)
    /\ localStorage = SaveKeys(EmptyStorage, StorageKeys, numProblems,
                               isNumProblemsLocked, time, isRunning,
                               teamActions, problemStates, logs, actionTimers)
    /\ showDialog = Null
    /\ lastOp = Op("load", TRUE)

\* ------------------------------------------------------- render and effects
HookChanged(k) ==
    CASE k = "numProblems"         -> numProblems' # numProblems
      [] k = "isNumProblemsLocked" -> isNumProblemsLocked' # isNumProblemsLocked
      [] k = "time"                -> time' # time
      [] k = "isRunning"           -> isRunning' # isRunning
      [] OTHER                     -> FALSE

\* the re-render with the interval effects never cleaned up: both timers stay
\* installed as they were
Effects_keepsIntervals(store, replaced) ==
    LET changed == replaced \cup {k \in StorageKeys : HookChanged(k)}
    IN  /\ localStorage' = SaveKeys(store, changed, numProblems',
                                   isNumProblemsLocked', time', isRunning',
                                   teamActions', problemStates', logs',
                                   actionTimers')
        /\ clockInterval' = IF isRunning' /\ clockInterval = NoTimer
                            THEN Period ELSE clockInterval
        /\ ledgerInterval' = IF isRunning' /\ ledgerInterval = NoTimer
                             THEN Period ELSE ledgerInterval

\* The re-render after a handler or callback: an effect runs when one of its
\* dependencies changed.  `replaced` names the object-valued hooks whose
\* setter was called (a new object is a changed dependency whatever it
\* holds); `store` is localStorage as the handler left it.
Effects(store, replaced) ==
    LET changed == replaced \cup {k \in StorageKeys : HookChanged(k)}
        restart == IF isRunning' THEN Period ELSE NoTimer
    IN  /\ localStorage' = SaveKeys(store, changed, numProblems',
                                   isNumProblemsLocked', time', isRunning',
                                   teamActions', problemStates', logs',
                                   actionTimers')
        /\ clockInterval' = IF isRunning' # isRunning THEN restart
                            ELSE clockInterval
        /\ ledgerInterval' = IF isRunning' # isRunning \/ "teamActions" \in replaced
                             THEN restart ELSE ledgerInterval

\* an event that reaches no handler, or a handler that returns at once
Ignored(name) ==
    /\ lastOp' = Op(name, FALSE)
    /\ UNCHANGED <<numProblems, isNumProblemsLocked, time, isRunning,
                   teamActions, problemStates, logs, showDialog,
                   actionTimers, localStorage,
                   clockInterval, ledgerInterval>>

\* ------------------------------------------------------ problem count input
InputValues == {""} \cup {ToString(n) : n \in (0 - 1)..MaxProblems}
\* parseInt(e.target.value) || ''
ParseInput(v) ==
    IF v = "" THEN Blank
    ELSE LET n == parseInt(v) IN IF n = 0 THEN Blank ELSE <<n>>

\* the input is rendered until the count is locked
TypeNumProblems(v) ==
    /\ ~isNumProblemsLocked
    /\ numProblems' = ParseInput(v)
    /\ lastOp' = Op("type", TRUE)
    /\ UNCHANGED <<isNumProblemsLocked, time, isRunning, teamActions,
                   problemStates, logs, showDialog, actionTimers>>
    /\ Effects(localStorage, {})

\* the check without its `> 0` half
ValidCount_nonBlank(np) == np # Blank

\* numProblems !== '' && numProblems > 0
ValidCount(np) == np # Blank /\ np[1] > 0

\* the Confirm button: handleNumProblemsSubmit, then the lock effect
handleNumProblemsSubmit ==
    /\ ~isNumProblemsLocked
    /\ IF ~ValidCount(numProblems)
       THEN Ignored("lock")
       ELSE
         /\ isNumProblemsLocked' = TRUE
         /\ problemStates' = InitProblemStates(problemStates, numProblems[1])
         /\ actionTimers' = InitActionTimers(actionTimers, numProblems[1])
         /\ lastOp' = Op("lock", TRUE)
         /\ UNCHANGED <<numProblems, time, isRunning, teamActions, logs,
                        showDialog>>
         /\ Effects(localStorage, {"problemStates", "actionTimers"})

\* ------------------------------------------------------- Start/Pause button
\* the button rendered whether or not the count is locked
ToggleRunning_unlocked ==
    /\ isRunning' = ~isRunning
    /\ lastOp' = Op("toggle", TRUE)
    /\ UNCHANGED <<numProblems, isNumProblemsLocked, time, teamActions,
                   problemStates, logs, showDialog, actionTimers>>
    /\ Effects(localStorage, {})

\* rendered once the count is locked: setIsRunning(!isRunning)
ToggleRunning ==
    /\ isNumProblemsLocked
    /\ isRunning' = ~isRunning
    /\ lastOp' = Op("toggle", TRUE)
    /\ UNCHANGED <<numProblems, isNumProblemsLocked, time, teamActions,
                   problemStates, logs, showDialog, actionTimers>>
    /\ Effects(localStorage, {})

\* ------------------------------------------------------------ activity radios
\* the radios of a solved problem left enabled
RadioDisabled_ignoresSolved(action, problem) == ~isRunning

\* disabled={!isRunning} and disabled={!isRunning || problemStates[problem]}
RadioDisabled(action, problem) ==
    \/ ~isRunning
    \/ (action # "idle" /\ IsSolved(problemStates, problem))

\* checked={...}: a click on the checked radio raises no change event
RadioChecked(member, action, problem) ==
    /\ teamActions[member].action = action
    /\ (action # "idle" => ProblemOf(teamActions[member]) = problem)

ActionMessage(member, action, problem) ==
    CASE action = "idle"  -> member \o " is now idle."
      [] action = "solve" -> member \o " starts working on Problem "
                                    \o problem \o "."
      [] action = "code"  -> member \o " begins coding for Problem "
                                    \o problem \o "."

AllRadios ==
    {<<"idle", Undefined>>}
      \cup {<<a, fromCharCode(i)>> : a \in {"solve", "code"},
                                     i \in 0..(MaxProblems - 1)}
ActivityMessages ==
    {ActionMessage(m, r[1], r[2]) : m \in Members, r \in AllRadios}
\* how many lines of the log come from handleActionChange
ChangesLogged(lg) ==
    Cardinality({i \in DOMAIN lg : lg[i][2] \in ActivityMessages})

\* the body of handleActionChange after its guard, and the render it causes
ApplyActionChange(member, action, problem) ==
    /\ ChangesLogged(logs) < MaxChanges
    /\ teamActions' = [teamActions EXCEPT ![member] = MakeAction(action, problem)]
    /\ logs' = Append(logs, LogLine(time, ActionMessage(member, action, problem)))
    /\ lastOp' = Op("setActivity", TRUE)
    /\ UNCHANGED <<numProblems, isNumProblemsLocked, time, isRunning,
                   problemStates, showDialog, actionTimers>>
    /\ Effects(localStorage, {"teamActions", "logs"})

handleActionChange(member, action, problem) ==
    IF ~isRunning
    THEN Ignored("setActivity")
    ELSE ApplyActionChange(member, action, problem)

\* a click that changes the activity whether or not the session is running
SetActivity_unguarded(member, action, problem) ==
    /\ isNumProblemsLocked
    /\ ~RadioChecked(member, action, problem)
    /\ IF action # "idle" /\ IsSolved(problemStates, problem)
       THEN Ignored("setActivity")
       ELSE ApplyActionChange(member, action, problem)

\* a click on one of the radios of `member`; they are rendered once locked
SetActivity(member, action, problem) ==
    /\ isNumProblemsLocked
    /\ ~RadioChecked(member, action, problem)
    /\ IF RadioDisabled(action, problem)
       THEN Ignored("setActivity")
       ELSE handleActionChange(member, action, problem)

\* ------------------------------------------------- solved checkbox and dialog
\* the checkbox of a solved problem left enabled
CheckboxDisabled_ignoresSolved(problem) == ~isRunning

\* disabled={!isRunning || problemStates[problem]}
CheckboxDisabled(problem) ==
    \/ ~isRunning
    \/ IsSolved(problemStates, problem)

\* the checkbox of a problem column, rendered once locked:
\* onChange={() => setShowDialog(problem)}
ClickSolved(problem) ==
    /\ isNumProblemsLocked
    /\ IF CheckboxDisabled(problem)
       THEN Ignored("markSolved")
       ELSE
         /\ showDialog' = problem
         /\ lastOp' = Op("askSolved", TRUE)
         /\ UNCHANGED <<numProblems, isNumProblemsLocked, time, isRunning,
                        teamActions, problemStates, logs,
                        actionTimers, localStorage, clockInterval,
                        ledgerInterval>>

\* prev[member].problem === problem
WorksOn(actions, member, problem) == ProblemOf(actions[member]) = problem

\* the updater without the cascade
IdleMembersOn_nobody(prev, problem) == prev

\* setTeamActions(prev => ...) of handleProblemSolved
IdleMembersOn(prev, problem) ==
    [m \in Members |-> IF WorksOn(prev, m, problem) THEN IdleAction ELSE prev[m]]

\* the addLog calls made inside that updater, in TEAM_MEMBERS order
RECURSIVE ForcedIdleLogs(_, _, _, _)
ForcedIdleLogs(prev, problem, t, i) ==
    IF i > Len(TEAM_MEMBERS) THEN <<>>
    ELSE (IF WorksOn(prev, TEAM_MEMBERS[i], problem)
          THEN <<LogLine(t, TEAM_MEMBERS[i] \o " is idle")>>
          ELSE <<>>) \o ForcedIdleLogs(prev, problem, t, i + 1)

\* setProblemStates((prev) => ({ ...prev, [problem]: true }))
MarkState(prev, problem) ==
    [p \in (DOMAIN prev) \cup {problem} |-> IF p = problem THEN TRUE ELSE prev[p]]

\* the Yes button: handleProblemSolved(showDialog); setShowDialog(null)
handleProblemSolved(problem) ==
    IF ~isRunning
    THEN /\ showDialog' = Null
         /\ lastOp' = Op("markSolved", FALSE)
         /\ UNCHANGED <<numProblems, isNumProblemsLocked, time, isRunning,
                        teamActions, problemStates, logs,
                        actionTimers, localStorage, clockInterval,
                        ledgerInterval>>
    ELSE LET forced == ForcedIdleLogs(teamActions, problem, time, 1) IN
         /\ problemStates' = MarkState(problemStates, problem)
         /\ logs' = Append(logs, LogLine(time, "Problem " \o problem
                                   \o " is successfully solved.")) \o forced
         /\ teamActions' = IdleMembersOn(teamActions, problem)
         /\ showDialog' = Null
         /\ lastOp' = Op("markSolved", TRUE)
         /\ UNCHANGED <<numProblems, isNumProblemsLocked, time, isRunning,
                        actionTimers>>
         /\ Effects(localStorage, {"problemStates", "logs", "teamActions"})

DialogYes ==
    /\ showDialog # Null
    /\ handleProblemSolved(showDialog)

\* the No button
DialogNo ==
    /\ showDialog # Null
    /\ showDialog' = Null
    /\ lastOp' = Op("cancelSolved", TRUE)
    /\ UNCHANGED <<numProblems, isNumProblemsLocked, time, isRunning,
                   teamActions, problemStates, logs,
                   actionTimers, localStorage, clockInterval, ledgerInterval>>

\* ------------------------------------------------------------------- restart
\* The Restart button is rendered once locked and opens the confirmation
\* dialog (showResetDialog); nothing but that dialog's two buttons and a page
\* reload closes it, and no step unlocks the session while it is open.  The
\* dialog is therefore not kept as state: opening it and confirming are one
\* step, enabled exactly when the session is locked.
\* the removals without the one for numProblems
RemovedKeys_keepsCount == StorageKeys \ {"numProblems"}

\* the eight localStorage.removeItem calls
RemovedKeys == StorageKeys
RemoveItems(store, keys) == [k \in StorageKeys |-> IF k \in keys THEN null ELSE store[k]]

\* the Restart button of the confirmation dialog
handleReset ==
    /\ isNumProblemsLocked
    /\ numProblems' = Blank
    /\ isNumProblemsLocked' = FALSE
    /\ time' = 0
    /\ isRunning' = FALSE
    /\ teamActions' = DefaultTeamActions
    /\ problemStates' = <<>>
    /\ logs' = <<>>
    /\ actionTimers' = <<>>
    /\ lastOp' = Op("reset", TRUE)
    /\ UNCHANGED showDialog
    /\ Effects(RemoveItems(localStorage, RemovedKeys),
               {"teamActions", "problemStates", "logs", "actionTimers"})

\* --------------------------------------------------------------- the timers
\* the clock interval callback: setTime((prevTime) => prevTime + 1)
ClockTick ==
    /\ clockInterval = 0
    /\ time < MaxTime
    /\ time' = time + 1
    /\ lastOp' = Op("clockTick", TRUE)
    /\ UNCHANGED <<numProblems, isNumProblemsLocked, isRunning, teamActions,
                   problemStates, logs, showDialog,
                   actionTimers, ledgerInterval>>
    /\ localStorage' = SaveKeys(localStorage, {"time"}, numProblems,
                                isNumProblemsLocked, time', isRunning,
                                teamActions, problemStates, logs, actionTimers)
    /\ clockInterval' = Period

\* the ledger interval callback
LedgerTick ==
    /\ ledgerInterval = 0
    /\ \A k \in DOMAIN actionTimers : actionTimers[k] < MaxLedger
    /\ actionTimers' = AccrueTimers(actionTimers, teamActions)
    /\ lastOp' = Op("ledgerTick", TRUE)
    /\ UNCHANGED <<numProblems, isNumProblemsLocked, time, isRunning,
                   teamActions, problemStates, logs, showDialog,
                   clockInterval>>
    /\ localStorage' = SaveKeys(localStorage, {"actionTimers"}, numProblems,
                                isNumProblemsLocked, time, isRunning,
                                teamActions, problemStates, logs, actionTimers')
    /\ ledgerInterval' = Period

\* time passes while no installed interval is due
Advance ==
    /\ clockInterval > 0
    /\ ledgerInterval > 0
    /\ clockInterval' = clockInterval - 1
    /\ ledgerInterval' = ledgerInterval - 1
    /\ UNCHANGED <<numProblems, isNumProblemsLocked, time, isRunning,
                   teamActions, problemStates, logs, showDialog,
                   actionTimers, localStorage, lastOp>>

\* -------------------------------------------------------------- page reload
Reload ==
    /\ Mount
    /\ showDialog' = Null
    /\ lastOp' = Op("load", TRUE)

\* the radios and checkboxes a user can aim at
Radios ==
    {<<"idle", Undefined>>}
      \cup {<<a, p>> : a \in {"solve", "code"}, p \in DOMAIN problemStates}

Next ==
    \/ \E v \in InputValues : TypeNumProblems(v)
    \/ handleNumProblemsSubmit
    \/ ToggleRunning
    \/ \E m \in Members, r \in Radios : SetActivity(m, r[1], r[2])
    \/ \E p \in DOMAIN problemStates : ClickSolved(p)
    \/ DialogYes
    \/ DialogNo
    \/ handleReset
    \/ ClockTick
    \/ LedgerTick
    \/ Advance
    \/ Reload

Spec == Init /\ [][Next]_vars

\* ------------------------------------------- loading a stored snapshot
\* The page load as an operation on whatever localStorage holds: per key
\* nothing, a value the app writes, or text the app cannot parse.
JSONKeys == {"teamActions", "problemStates", "logs", "actionTimers"}
Unparsable(k) == IF k \in JSONKeys THEN <<[text |-> "{oops"]>> ELSE <<"oops">>
SnapshotValues(k) ==
    {null, Unparsable(k)} \cup
      CASE k = "numProblems"         -> {<<StringOfInt(1)>>}
        [] k = "isNumProblemsLocked" -> {<<StringOfBool(TRUE)>>}
        [] k = "time"                -> {<<StringOfInt(1)>>}
        [] k = "isRunning"           -> {<<StringOfBool(TRUE)>>}
        [] k = "teamActions"         -> {<<JSONstringify(DefaultTeamActions)>>}
        [] k = "problemStates"       -> {<<JSONstringify(InitProblemStates(<<>>, 1))>>}
        [] k = "logs"                -> {<<JSONstringify(<<>>)>>}
        [] k = "actionTimers"        -> {<<JSONstringify(InitActionTimers(<<>>, 1))>>}
Snapshots ==
    {[numProblems |-> np, isNumProblemsLocked |-> lk, time |-> t,
      isRunning |-> r, teamActions |-> ta, problemStates |-> ps,
      logs |-> lg, actionTimers |-> at] :
        np \in SnapshotValues("numProblems"),
        lk \in SnapshotValues("isNumProblemsLocked"),
        t  \in SnapshotValues("time"),
        r  \in SnapshotValues("isRunning"),
        ta \in SnapshotValues("teamActions"),
        ps \in SnapshotValues("problemStates"),
        lg \in SnapshotValues("logs"),
        at \in SnapshotValues("actionTimers")}

\* a useState initialiser calls JSON.parse on text that is not JSON
LoadThrows(store) ==
    \E k \in JSONKeys : store[k] # null /\ ~IsJSON(store[k][1])

\* before the page is loaded nothing is mounted; the hooks are shown with
\* their defaults
InitLoad ==
    /\ localStorage \in Snapshots
    /\ numProblems = Blank
    /\ isNumProblemsLocked = FALSE
    /\ time = 0
    /\ isRunning = FALSE
    /\ teamActions = DefaultTeamActions
    /\ problemStates = <<>>
    /\ logs = <<>>
    /\ actionTimers = <<>>
    /\ showDialog = Null
    /\ clockInterval = NoTimer
    /\ ledgerInterval = NoTimer
    /\ lastOp = "unloaded"

\* the page load: an exception in an initialiser leaves App unmounted (there
\* is no error boundary and no try/catch), otherwise App mounts
LoadSnapshot ==
    /\ lastOp = "unloaded"
    /\ IF LoadThrows(localStorage)
       THEN /\ lastOp' = "error"
            /\ UNCHANGED <<numProblems, isNumProblemsLocked, time, isRunning,
                           teamActions, problemStates, logs, showDialog,
                           actionTimers, localStorage, clockInterval,
                           ledgerInterval>>
       ELSE Reload

NextLoad == LoadSnapshot

SpecLoad == InitLoad /\ [][NextLoad]_vars

\* ======================================================================
\* Properties
\* ======================================================================
AllProblems == {fromCharCode(i) : i \in 0..(MaxProblems - 1)}
AnyRadioClick(m) == \E r \in AllRadios : SetActivity(m, r[1], r[2])

\* the ledger target of an activity: "idle" or the problem worked on
TargetOf(a) == IF a.action = "idle" THEN "idle" ELSE ProblemOf(a)
KeysOf(member) ==
    {TimerKey(member, t) : t \in {"idle"} \cup AllProblems}

\* C1: while the session is running, every firing of the ledger interval
\* adds exactly 1 to the entry of each member's current target and leaves
\* that member's other entries alone, and no other step in which the session
\* stays running changes the ledger; so N firings under a fixed activity add
\* exactly N to the matching entry and nothing to the others.
C1_Step ==
    (isRunning /\ isRunning') =>
        IF LedgerTick
        THEN /\ teamActions' = teamActions
             /\ DOMAIN actionTimers' = DOMAIN actionTimers
             /\ \A m \in Members :
                  LET key == TimerKey(m, TargetOf(teamActions[m])) IN
                  /\ key \in DOMAIN actionTimers
                  /\ actionTimers'[key] = actionTimers[key] + 1
                  /\ \A k \in (KeysOf(m) \cap DOMAIN actionTimers) \ {key} :
                        actionTimers'[k] = actionTimers[k]
        ELSE actionTimers' = actionTimers
StoreAfterEffects(n) ==
    [k \in StorageKeys |->
        IF \E i \in 1..n : EffectOrder[i] = k THEN localStorage'[k]
                                            ELSE localStorage[k]]

\* C2 (as claimed): an accepted markSolved(P) with k members on P leaves P
\* solved, exactly those k members idle, every other activity unchanged, and
\* the log longer by 1 + k lines: "Problem P is successfully solved.", then
\* "<member> is now idle." for each forced member in TEAM_MEMBERS order.
OnProblem(problem) ==
    SelectSeq(TEAM_MEMBERS, LAMBDA m : ProblemOf(teamActions[m]) = problem)
C2_Cascade(idleText) ==
    (DialogYes /\ isRunning /\ ~IsSolved(problemStates, showDialog)) =>
        LET P      == showDialog
            forced == OnProblem(P)
            k      == Len(forced)
            n      == Len(logs)
        IN  /\ IsSolved(problemStates', P)
            /\ \A m \in Members :
                 teamActions'[m] = IF \E i \in 1..k : forced[i] = m
                                   THEN IdleAction ELSE teamActions[m]
            /\ Len(logs') = n + 1 + k
            /\ SubSeq(logs', 1, n) = logs
            /\ logs'[n + 1][2] = "Problem " \o P \o " is successfully solved."
            /\ \A i \in 1..k : logs'[n + 1 + i][2] = forced[i] \o idleText
C2_Claim == [][C2_Cascade(" is now idle.")]_vars

\* C3: in every state, and in every localStorage a reload can find between
\* the persistence writes of a markSolved, nobody is solving or coding a
\* problem whose status is true.
NoWorkOnSolved(actions, states) ==
    \A m \in Members :
        actions[m].action # "idle" => ~IsSolved(states, ProblemOf(actions[m]))
C3_Step ==
    /\ NoWorkOnSolved(teamActions, problemStates)
    /\ NoWorkOnSolved(teamActions', problemStates')
    /\ NoWorkOnSolved(LoadTeamActions(localStorage'),
                      LoadProblemStates(localStorage'))
    /\ DialogYes =>
         \A n \in 0..Len(EffectOrder) :
            NoWorkOnSolved(LoadTeamActions(StoreAfterEffects(n)),
                           LoadProblemStates(StoreAfterEffects(n)))
C3_NobodyWorksOnSolved == [][C3_Step]_vars

\* a problem is solved and its cascade has idled a member
C3_Witness ==
    \E p \in DOMAIN problemStates, m \in Members, i \in DOMAIN logs :
        /\ problemStates[p]
        /\ logs[i][2] = m \o " is idle"
        /\ teamActions[m] = IdleAction

\* C4 (as claimed): no step other than reset takes a problem's status from
\* true to anything else.
C4_Claim ==
    [][~handleReset =>
         \A p \in DOMAIN problemStates :
            problemStates[p] => IsSolved(problemStates', p)]_vars

\* C5: a radio click while the session is not running changes no activity,
\* appends no log line and leaves ledger, clock and statuses as they were.
C5_Step ==
    (~isRunning /\ \E m \in Members : AnyRadioClick(m)) =>
        /\ UNCHANGED session
        /\ UNCHANGED localStorage
C5_PausedSetActivityIsNoOp == [][C5_Step]_vars

\* a radio was clicked while paused with the count locked
C5_Witness == lastOp = "setActivity" /\ ~isRunning /\ isNumProblemsLocked

\* C6: while running, a click on the solve or code radio of a solved problem
\* changes nothing: no activity comes to reference it, no log line is added.
C6_Step ==
    (isRunning /\ \E m \in Members, r \in AllRadios :
                     /\ r[1] # "idle"
                     /\ IsSolved(problemStates, r[2])
                     /\ SetActivity(m, r[1], r[2])) =>
        /\ UNCHANGED session
        /\ UNCHANGED localStorage
C6_SolvedProblemNotReopened == [][C6_Step]_vars

\* a radio click was refused while running, a problem being solved
C6_Witness ==
    /\ lastOp = "setActivity"
    /\ isRunning
    /\ \E p \in DOMAIN problemStates : problemStates[p]

\* C7: markSolved(P) while not running, or for a P already solved, changes no
\* status, idles nobody and logs nothing, at the checkbox and at the dialog.
C7_Step ==
    /\ \A p \in AllProblems :
         (ClickSolved(p) /\ (~isRunning \/ IsSolved(problemStates, p))) =>
             UNCHANGED <<session, localStorage, showDialog>>
    /\ (DialogYes /\ (~isRunning \/ IsSolved(problemStates, showDialog))) =>
             UNCHANGED <<session, localStorage>>
C7_RefusedMarkSolvedIsNoOp == [][C7_Step]_vars

\* the checkbox of a solved problem was clicked while running
C7_Witness ==
    /\ lastOp = "markSolved"
    /\ isRunning
    /\ \E p \in DOMAIN problemStates : problemStates[p]

\* C8 (as claimed): once locked, the re-initialisation run by a reload keeps
\* statuses, ledger, log and clock, and typing or confirming a count keeps
\* the count and the Problem Set.
C8_Claim ==
    [][isNumProblemsLocked =>
         /\ Reload => UNCHANGED <<numProblems, isNumProblemsLocked,
                                  problemStates, actionTimers, logs, time>>
         /\ ((\E v \in InputValues : TypeNumProblems(v))
              \/ handleNumProblemsSubmit)
               => UNCHANGED <<numProblems, problemStates>>]_vars

\* C9: Confirm with an empty, zero or negative count leaves the session
\* unlocked and registry, ledger, activities, log, clock and running flag as
\* they were; a typed zero is held as the empty count.
C9_Step ==
    /\ numProblems' # <<0>>
    /\ (handleNumProblemsSubmit /\ (numProblems = Blank \/ numProblems[1] <= 0)) =>
         /\ ~isNumProblemsLocked'
         /\ UNCHANGED <<problemStates, actionTimers, teamActions, logs, time,
                        isRunning, numProblems, localStorage>>
C9_InvalidCountNotLocked == [][C9_Step]_vars

\* Confirm was refused on a negative count
C9_Witness ==
    /\ lastOp = "lock"
    /\ ~isNumProblemsLocked
    /\ numProblems # Blank
    /\ numProblems[1] < 0

\* C10: a reset leaves the count empty, the session unlocked and paused, the
\* clock at 0, registry, ledger and log empty and everybody idle, and a page
\* load on the localStorage it leaves behind mounts exactly that state.
Cleared(np, lk, t, r, ta, ps, lg, at) ==
    /\ np = Blank
    /\ ~lk
    /\ t = 0
    /\ ~r
    /\ ta = DefaultTeamActions
    /\ ps = <<>>
    /\ lg = <<>>
    /\ at = <<>>
C10_Step ==
    handleReset =>
        /\ Cleared(numProblems', isNumProblemsLocked', time', isRunning',
                   teamActions', problemStates', logs', actionTimers')
        /\ clockInterval' = NoTimer
        /\ ledgerInterval' = NoTimer
        /\ Cleared(LoadNumProblems(localStorage'), LoadLocked(localStorage'),
                   LoadTime(localStorage'), LoadRunning(localStorage'),
                   LoadTeamActions(localStorage'),
                   MountProblemStates(localStorage'),
                   LoadLogs(localStorage'), MountActionTimers(localStorage'))
C10_ResetClearsAndPersists == [][C10_Step]_vars

\* right after a reset of a session that had a stored count
C10_Witness ==
    /\ lastOp = "reset"
    /\ localStorage["numProblems"] = null
    /\ localStorage["logs"] = <<JSONstringify(<<>>)>>

\* C11 (as claimed): in every state, once the persistence effects of the last
\* step have run, a page load on localStorage mounts the very state held:
\* count, locked, clock, running, activities, statuses, ledger and log.
C11_Claim ==
    /\ LoadNumProblems(localStorage) = numProblems
    /\ LoadLocked(localStorage) = isNumProblemsLocked
    /\ LoadTime(localStorage) = time
    /\ LoadRunning(localStorage) = isRunning
    /\ LoadTeamActions(localStorage) = teamActions
    /\ MountProblemStates(localStorage) = problemStates
    /\ LoadLogs(localStorage) = logs
    /\ MountActionTimers(localStorage) = actionTimers

\* C12 (as claimed): a page load on a snapshot with an unparsable field does
\* not fail and mounts the fresh state: empty count, unlocked, paused, clock
\* at 0, everybody idle, no statuses, no ledger, no log.
Malformed(store) == \E k \in StorageKeys : store[k] = Unparsable(k)
C12_Claim ==
    [][(LoadSnapshot /\ Malformed(localStorage)) =>
          /\ lastOp' # "error"
          /\ Cleared(numProblems', isNumProblemsLocked', time', isRunning',
                     teamActions', problemStates', logs', actionTimers')]_vars

\* C13: in every state the running flag is true only in a locked session
\* with a positive problem count, in the hooks and in what localStorage
\* would load.
Configured(lk, np) == lk /\ np # Blank /\ np[1] > 0
C13_RunningImpliesConfigured ==
    /\ isRunning => Configured(isNumProblemsLocked, numProblems)
    /\ LoadRunning(localStorage) =>
          Configured(LoadLocked(localStorage), LoadNumProblems(localStorage))

\* a running session stored as running, its log not empty
C13_Witness ==
    /\ isRunning
    /\ LoadRunning(localStorage)
    /\ Len(logs) > 0

\* the sum of one member's ledger entries over idle and all problems
RECURSIVE SumOver(_, _)
SumOver(timers, keys) ==
    IF keys = {} THEN 0
    ELSE LET k == CHOOSE x \in keys : TRUE
         IN  timers[k] + SumOver(timers, keys \ {k})
LedgerSum(timers, member) == SumOver(timers, KeysOf(member) \cap DOMAIN timers)

\* C14 (as claimed): in every state of a locked session, in the hooks and in
\* what localStorage would load, each member's ledger entries add up to the
\* elapsed time.
C14_Claim ==
    /\ isNumProblemsLocked =>
          \A m \in Members : LedgerSum(actionTimers, m) = time
    /\ LoadLocked(localStorage) =>
          \A m \in Members :
             LedgerSum(LoadActionTimers(localStorage), m) = LoadTime(localStorage)

\* C15: from a state that is not running, no step other than reset changes
\* the clock or the value of any ledger entry, in the hooks or in what
\* localStorage would load; Start itself adds nothing and installs both
\* intervals a full period away.
KeepsEntries(old, new) ==
    \A k \in DOMAIN old : k \in DOMAIN new /\ new[k] = old[k]
C15_Step ==
    (~isRunning /\ ~handleReset) =>
        /\ time' = time
        /\ KeepsEntries(actionTimers, actionTimers')
        /\ LoadTime(localStorage') = LoadTime(localStorage)
        /\ KeepsEntries(LoadActionTimers(localStorage),
                        LoadActionTimers(localStorage'))
        /\ clockInterval = NoTimer
        /\ ledgerInterval = NoTimer
        /\ ToggleRunning => /\ clockInterval' = Period
                            /\ ledgerInterval' = Period
C15_NoTickWhilePaused == [][C15_Step]_vars

\* a paused session holding an elapsed second and an accrued second
C15_Witness ==
    /\ ~isRunning
    /\ isNumProblemsLocked
    /\ time = 1
    /\ \E k \in DOMAIN actionTimers : actionTimers[k] = 1

\* C16: the clock is a natural number; a firing of the clock interval adds
\* exactly 1 to it, a reset aside no other step (lock, start, pause, radio
\* click, markSolved, ledger accrual, reload) changes it.
C16_Step ==
    /\ time \in Nat
    /\ time' \in Nat
    /\ ~handleReset => IF ClockTick THEN time' = time + 1 ELSE time' = time
C16_TimeMonotone == [][C16_Step]_vars

\* a running session whose elapsed second is stored
C16_Witness == time = 1 /\ isRunning /\ LoadTime(localStorage) = 1

\* the number of seconds a stamp written by formatTime stands for
StampRange == 0..(MaxTime + 1)
SecondsOf(stamp) == CHOOSE t \in StampRange : formatTime(t) = stamp
TimeOrdered(lg) ==
    \A i, j \in DOMAIN lg :
        i <= j => /\ \E t \in StampRange : formatTime(t) = lg[i][1]
                  /\ SecondsOf(lg[i][1]) <= SecondsOf(lg[j][1])

\* C17: in every step other than reset the old log is a prefix of the new
\* one and every appended line carries the clock shown when its handler
\* ran; the stamps along the log, in the hook and in localStorage, never
\* decrease.
C17_Step ==
    /\ ~handleReset =>
          /\ Len(logs') >= Len(logs)
          /\ SubSeq(logs', 1, Len(logs)) = logs
          /\ \A i \in (Len(logs) + 1)..Len(logs') :
                logs'[i][1] = formatTime(time)
    /\ TimeOrdered(logs')
    /\ TimeOrdered(LoadLogs(localStorage'))
C17_LogAppendOnly == [][C17_Step]_vars

\* a log with a line stamped at second 0 followed by a line stamped at 1
C17_Witness ==
    \E i, j \in DOMAIN logs :
        /\ i < j
        /\ logs[i][1] = formatTime(0)
        /\ logs[j][1] = formatTime(1)

\* C18 (as claimed): an accepted radio click (running, target not solved)
\* gives that member the clicked activity, keeps every other member's,
\* appends exactly one log line, and changes no ledger entry, not the clock,
\* no problem status and not the time left until the next ledger accrual.
C18_Frame(schedule) ==
    \A m \in Members, r \in AllRadios :
        (SetActivity(m, r[1], r[2]) /\ ~RadioDisabled(r[1], r[2])) =>
            /\ teamActions'[m] = MakeAction(r[1], r[2])
            /\ \A o \in Members \ {m} : teamActions'[o] = teamActions[o]
            /\ Len(logs') = Len(logs) + 1
            /\ SubSeq(logs', 1, Len(logs)) = logs
            /\ logs'[Len(logs')] = LogLine(time, ActionMessage(m, r[1], r[2]))
            /\ actionTimers' = actionTimers
            /\ time' = time
            /\ problemStates' = problemStates
            /\ schedule => ledgerInterval' = ledgerInterval
C18_Claim == [][C18_Frame(TRUE)]_vars

\* C19: an accepted Confirm of a count n > 0 on an unlocked session leaves
\* the statuses as FALSE for exactly the first n letters from "A" and the
\* ledger as 0 for exactly the keys member-idle and member-letter, in the
\* hooks and in localStorage, with no interval installed; and whenever the
\* ledger interval fires, every such key is in the ledger.
FirstLetters(n) == {Alphabet[i] : i \in 1..n}
LedgerKeys(n) ==
    {m \o "-idle" : m \in Members}
      \cup {m \o "-" \o p : m \in Members, p \in FirstLetters(n)}
FreshlyLocked(n, states, timers) ==
    /\ DOMAIN states = FirstLetters(n)
    /\ \A p \in DOMAIN states : states[p] = FALSE
    /\ DOMAIN timers = LedgerKeys(n)
    /\ \A k \in DOMAIN timers : timers[k] = 0
C19_Step ==
    /\ (handleNumProblemsSubmit /\ numProblems # Blank /\ numProblems[1] > 0) =>
          /\ isNumProblemsLocked'
          /\ numProblems' = numProblems
          /\ FreshlyLocked(numProblems[1], problemStates', actionTimers')
          /\ FreshlyLocked(numProblems[1], LoadProblemStates(localStorage'),
                           LoadActionTimers(localStorage'))
          /\ clockInterval' = NoTimer
          /\ ledgerInterval' = NoTimer
    /\ LedgerTick =>
          /\ numProblems # Blank
          /\ LedgerKeys(numProblems[1]) \subseteq DOMAIN actionTimers
C19_LockInitialises == [][C19_Step]_vars

\* a session just locked on the largest count: nothing solved, nothing
\* accrued, not yet started
C19_Witness ==
    /\ isNumProblemsLocked
    /\ ~isRunning
    /\ numProblems = <<MaxProblems>>
    /\ FreshlyLocked(MaxProblems, problemStates, actionTimers)
    /\ logs = <<>>

\* Two facts about every state the hooks hold: a running session is locked,
\* and a member who is solving or coding has a log line saying so.
LoggedActivities(actions, lg) ==
    \A m \in Members :
        actions[m].action # "idle" =>
            \E i \in DOMAIN lg :
                lg[i][2] = ActionMessage(m, actions[m].action,
                                         ProblemOf(actions[m]))
HeldState(lk, r, actions, lg) ==
    /\ r => lk
    /\ LoggedActivities(actions, lg)
HeldStatesInvariant ==
    HeldState(isNumProblemsLocked, isRunning, teamActions, logs)

\* localStorage as a reload finds it part-way through this step: after the
\* first n removeItem calls of a reset, or after the first n persistence
\* effects of the render (which follow all eight removals in a reset)
StoreAfterRemovals(n) ==
    RemoveItems(localStorage, {EffectOrder[i] : i \in 1..n})
StoreAfterResetEffects(n) ==
    [k \in StorageKeys |->
        IF \E i \in 1..n : EffectOrder[i] = k THEN localStorage'[k] ELSE null]
StoresDuringStep ==
    IF handleReset
    THEN {StoreAfterRemovals(n) : n \in 0..Len(EffectOrder)}
           \cup {StoreAfterResetEffects(n) : n \in 0..Len(EffectOrder)}
    ELSE {StoreAfterEffects(n) : n \in 0..Len(EffectOrder)}

\* C20 (as claimed): whatever localStorage holds between two writes of a
\* step, the fields a load reads back from it form a state the hooks have
\* held; so they satisfy what every held state satisfies.
C20_Claim ==
    [][\A store \in StoresDuringStep :
          HeldState(LoadLocked(store), LoadRunning(store),
                    LoadTeamActions(store), LoadLogs(store))]_vars

====
